---------------------------- MODULE Spec2Model ----------------------------
(***************************************************************************)
(* Model of the 27-card hand evaluator of pokahbot                         *)
(* (src/submission/hand_evaluator.py): the card codec, the postflop        *)
(* classifier get_strength_postflop, and the two exhaustive enumerators    *)
(* best_and_worst_hands and bet_size_helper, whose loops drive the         *)
(* classifier over every hole-card pair of the remaining deck.             *)
(*                                                                         *)
(* Strengths are Python floats built from hundredths and eighths; the      *)
(* model carries them exactly, as integers in units of 1/800               *)
(* (0.10 -> 80, 0.44 -> 352, 0.99 -> 792, (r/8)*0.14 -> 14*r).  Rounding   *)
(* of the binary floats (at most a few ulps, 1e-16) is below the model's   *)
(* resolution.                                                             *)
(***************************************************************************)
EXTENDS Integers, Sequences, FiniteSets, TLC

VARIABLES
    pc,                 \* "idle" | "loop" | "done": position of the running call
    fn,                 \* "none" | "best_and_worst_hands" | "bet_size_helper"
    community_cards,    \* the argument of the call, as given
    community_ints,     \* the integer list handed to get_strength_postflop
    all_cards,          \* the remaining deck, in the order the code builds it
    i, j,               \* loop indices (1-based here, 0-based in the code)
    hole_cards,         \* the pair classified by the last iteration
    hole_notation,      \* its notation (best_and_worst_hands only)
    strength, ranking,  \* what get_strength_postflop returned for it
    best_hand,          \* best_and_worst_hands: running best
    worst_hand,         \* best_and_worst_hands: running worst
    best_hand_strength, \* bet_size_helper: running best strength
    ret,                \* the value returned ("none" until the call returns)
    count,              \* history: number of pairs classified by this call
    visited,            \* history: the pairs classified by this call
    classified,         \* history: summaries of the pairs classified so far
    op,                 \* a direct call of one evaluator method: its name
    arg,                \* the argument of that call
    out,                \* its outcome: [kind |-> "return" or the exception, ...]
    evaluator,          \* the fields of the HandEvaluator object
    repeated,           \* the caller has made the same enumerator call again
    prev_ret,           \* what that call returned the first time
    agent_pc,           \* PlayerAgent: "new" | "ready"
    model_present,      \* self.model is not None
    hand_number,        \* self.hand_number
    discard_used,       \* self.discard_used
    last_observation,   \* the observation of the last act call
    info,               \* its info dictionary
    act_out,            \* what the last act call returned, and by which path
    game_state,         \* the last state vector encoded for the network
    discards,           \* history: DISCARDs returned since the last reset (2 = more)
    acts                \* history: act calls made so far

\* The variables of a direct call
callVars == <<op, arg, out>>

\* The evaluator object and the caller's record of a repeated call
selfVars == <<evaluator, repeated, prev_ret>>

\* The variables of the playing agent
agentVars == <<agent_pc, model_present, hand_number, discard_used,
               last_observation, info, act_out, game_state, discards, acts>>

\* The variables of the enumerators
evalVars == <<pc, fn, community_cards, community_ints, all_cards, i, j,
              hole_cards, hole_notation, strength, ranking, best_hand,
              worst_hand, best_hand_strength, ret, count, visited, classified>>

vars == <<pc, fn, community_cards, community_ints, all_cards, i, j, hole_cards,
          hole_notation, strength, ranking, best_hand, worst_hand,
          best_hand_strength, ret, count, visited, classified, callVars,
          selfVars, agentVars>>

-----------------------------------------------------------------------------
(* Bounds and program constants *)

\* Community cards are drawn from the first BoardDeckSize cards of BoardDeck.
BoardDeckSize == 7

\* Direct calls of the decoders take card ids from -OutOfRangeMargin up to
\* 26 + OutOfRangeMargin; direct calls of the classifier take at most
\* MaxDirectCards cards.
OutOfRangeMargin == 3
MaxDirectCards == 2

\* choose_card_to_discard is called on hole cards among the ids of DiscardDeck.
DiscardDeck == {0, 1, 8, 9, 13, 17, 22}

\* act is called at most MaxActs times, on hands numbered 1..MaxHandNumber,
\* with raises allowed between MinRaise and MaxRaise.
MaxActs == 2
MaxHandNumber == 2
MinRaise == 2
MaxRaise == 10

\* Number of ranks ("23456789A") and suits ("dhs"), and the board's size.
NumRanks == 9
NumSuits == 3
MaxCommunity == 5

\* One strength unit is 1/800: Unit * x is the float x.
Unit == 8 * 100

Min(S) == CHOOSE x \in S : \A y \in S : x <= y
Max(S) == CHOOSE x \in S : \A y \in S : x >= y
MinOf(a, b) == IF a <= b THEN a ELSE b
Range(s) == {s[k] : k \in DOMAIN s}

RECURSIVE SortedSeq(_)
\* sorted(set(...)): the elements of S in increasing order
SortedSeq(S) == IF S = {} THEN <<>>
                ELSE LET m == Min(S) IN <<m>> \o SortedSeq(S \ {m})

-----------------------------------------------------------------------------
(* HandEvaluator.__init__ *)

ranks == <<"2", "3", "4", "5", "6", "7", "8", "9", "A">>
suits == <<"d", "h", "s">>

HAND_RANKINGS == [HIGH_CARD |-> 0, PAIR |-> 1, TWO_PAIR |-> 2,
                  THREE_OF_KIND |-> 3, STRAIGHT |-> 4, FLUSH |-> 5,
                  FULL_HOUSE |-> 6, STRAIGHT_FLUSH |-> 7]

-----------------------------------------------------------------------------
(* Card codec *)

get_rank(card) == IF card = -1 THEN -1 ELSE card % 9

get_suit(card) == IF card = -1 THEN -1 ELSE card \div 9

\* Python's str(n) and int(c) on one decimal digit, str.isdigit, str.upper and
\* str.lower on the characters that occur.
Digits == <<"0", "1", "2", "3", "4", "5", "6", "7", "8", "9">>
str(n) == Digits[n + 1]
isdigit(c) == \E k \in DOMAIN Digits : Digits[k] = c
int(c) == (CHOOSE k \in DOMAIN Digits : Digits[k] = c) - 1
upper(c) == CASE c = "a" -> "A" [] c = "d" -> "D" [] c = "h" -> "H"
              [] c = "s" -> "S" [] c = "c" -> "C" [] c = "k" -> "K"
              [] c = "t" -> "T" [] OTHER -> c
lower(c) == CASE c = "A" -> "a" [] c = "D" -> "d" [] c = "H" -> "h"
              [] c = "S" -> "s" [] c = "C" -> "c" [] c = "K" -> "k"
              [] c = "T" -> "t" [] OTHER -> c

\* card_notation_to_int raises ValueError on these strings
card_notation_raises(card_str) ==
    LET rank_char == upper(card_str[1])
        suit_char == lower(card_str[2])
    IN  \/ ~(rank_char = "A" \/ isdigit(rank_char))
        \/ suit_char \notin {"d", "h", "s"}

card_notation_to_int(card_str) ==
    LET rank_char == upper(card_str[1])
        rank == IF rank_char = "A" THEN 8 ELSE int(rank_char) - 2
        suit_char == lower(card_str[2])
        suit == CASE suit_char = "d" -> 0
                  [] suit_char = "h" -> 1
                  [] suit_char = "s" -> 2
    IN  suit * 9 + rank

\* Mutant: the rank digit written one too low ("1" for the deuce)
int_to_card_notation_shifted(card_int) ==
    IF card_int = -1 THEN <<"?", "?">>
    ELSE LET rank == card_int % 9
             suit == card_int \div 9
             rank_str == IF rank = 8 THEN "A" ELSE str(rank + 1)
             suit_str == CASE suit = 0 -> "d"
                           [] suit = 1 -> "h"
                           [] suit = 2 -> "s"
                           [] OTHER -> "?"
         IN  <<rank_str, suit_str>>

int_to_card_notation(card_int) ==
    IF card_int = -1 THEN <<"?", "?">>
    ELSE LET rank == card_int % 9
             suit == card_int \div 9
             rank_str == IF rank = 8 THEN "A" ELSE str(rank + 2)
             suit_str == CASE suit = 0 -> "d"
                           [] suit = 1 -> "h"
                           [] suit = 2 -> "s"
                           [] OTHER -> "?"
         IN  <<rank_str, suit_str>>

-----------------------------------------------------------------------------
(* Preflop table *)

\* sorted(xs, reverse=True)
RECURSIVE SortedDesc(_)
SortedDesc(xs) ==
    IF xs = <<>> THEN <<>>
    ELSE LET k == CHOOSE a \in DOMAIN xs : \A b \in DOMAIN xs : xs[a] >= xs[b]
         IN  <<xs[k]>> \o SortedDesc([n \in 1..(Len(xs) - 1) |->
                                          IF n < k THEN xs[n] ELSE xs[n + 1]])

is_suited(cards) ==
    IF Len(cards) < 2 THEN FALSE
    ELSE \A k \in DOMAIN cards : get_suit(cards[k]) = get_suit(cards[1])

\* Mutant: the A7-A8 band starts one rank too high
get_strength_preflop_a8(cards) ==
    IF Len(cards) < 2 THEN 0
    ELSE LET rs == SortedDesc([k \in DOMAIN cards |-> get_rank(cards[k])])
             suited == IF is_suited(cards) THEN 1 ELSE 0
             high_card == rs[1]
             second_card == rs[Len(rs)]
         IN  IF rs[1] = rs[2]
             THEN LET pair_rank == rs[1]
                  IN  IF pair_rank = 8 THEN 760
                      ELSE IF pair_rank >= 5 THEN 680 + (pair_rank - 5) * 24
                      ELSE IF pair_rank >= 3 THEN 520 + (pair_rank - 3) * 40
                      ELSE 400 + pair_rank * 40
             ELSE IF high_card = 8
             THEN IF second_card >= 7 THEN 520 + 80 * suited
                  ELSE IF second_card > 5 THEN 440 + 120 * suited
                  ELSE 320 + 120 * suited
             ELSE IF high_card - second_card = 1 /\ high_card >= 6
             THEN 280 + 120 * suited
             ELSE IF high_card >= 6 THEN 240 + 80 * suited
             ELSE 160 + 80 * suited

\* get_strength_preflop, in units of 1/800 (0.95 -> 760, 0.03 -> 24, 0.05 -> 40)
get_strength_preflop(cards) ==
    IF Len(cards) < 2 THEN 0
    ELSE LET rs == SortedDesc([k \in DOMAIN cards |-> get_rank(cards[k])])
             suited == IF is_suited(cards) THEN 1 ELSE 0
             high_card == rs[1]
             second_card == rs[Len(rs)]
         IN  IF rs[1] = rs[2]
             THEN LET pair_rank == rs[1]
                  IN  IF pair_rank = 8 THEN 760
                      ELSE IF pair_rank >= 5 THEN 680 + (pair_rank - 5) * 24
                      ELSE IF pair_rank >= 3 THEN 520 + (pair_rank - 3) * 40
                      ELSE 400 + pair_rank * 40
             ELSE IF high_card = 8
             THEN IF second_card >= 7 THEN 520 + 80 * suited
                  ELSE IF second_card >= 5 THEN 440 + 120 * suited
                  ELSE 320 + 120 * suited
             ELSE IF high_card - second_card = 1 /\ high_card >= 6
             THEN 280 + 120 * suited
             ELSE IF high_card >= 6 THEN 240 + 80 * suited
             ELSE 160 + 80 * suited

-----------------------------------------------------------------------------
(* Hand classifier *)

\* The number of entries of the list s equal to x (the dict counts of the code)
CountOf(s, x) == Cardinality({k \in DOMAIN s : s[k] = x})

\* Mutant: the Ace-low straight (A,2,3,4,5) is not recognised
has_straight_in_ranks_no_wheel(rs) ==
    LET present == Range(rs)
        unique_ranks == SortedSeq(present)
        n == Len(unique_ranks)
        runs == {k \in 1..(n - 4) : unique_ranks[k + 4] - unique_ranks[k] = 4}
    IN  IF runs # {} THEN <<TRUE, unique_ranks[Min(runs) + 4]>>
        ELSE IF {4, 5, 6, 7, 8} \subseteq present THEN <<TRUE, 8>>
        ELSE <<FALSE, -1>>

\* Mutant: the Ace-low straight reported with the Ace as its high card
has_straight_in_ranks_ace_wheel(rs) ==
    LET present == Range(rs)
        unique_ranks == SortedSeq(present)
        n == Len(unique_ranks)
        runs == {k \in 1..(n - 4) : unique_ranks[k + 4] - unique_ranks[k] = 4}
    IN  IF runs # {} THEN <<TRUE, unique_ranks[Min(runs) + 4]>>
        ELSE IF {0, 1, 2, 3, 8} \subseteq present THEN <<TRUE, 8>>
        ELSE IF {4, 5, 6, 7, 8} \subseteq present THEN <<TRUE, 8>>
        ELSE <<FALSE, -1>>

has_straight_in_ranks(rs) ==
    LET present == Range(rs)
        unique_ranks == SortedSeq(present)
        n == Len(unique_ranks)
        runs == {k \in 1..(n - 4) : unique_ranks[k + 4] - unique_ranks[k] = 4}
    IN  IF runs # {} THEN <<TRUE, unique_ranks[Min(runs) + 4]>>
        ELSE IF {0, 1, 2, 3, 8} \subseteq present THEN <<TRUE, 3>>
        ELSE IF {4, 5, 6, 7, 8} \subseteq present THEN <<TRUE, 8>>
        ELSE <<FALSE, -1>>

\* The first suit, in order of first appearance, held by at least 5 entries
\* (the loop over suit_count.items() with its break); -1 when there is none.
FlushSuit(all_suits) ==
    LET firsts == {k \in DOMAIN all_suits :
                      /\ CountOf(all_suits, all_suits[k]) >= 5
                      /\ \A m \in 1..(k - 1) : all_suits[m] # all_suits[k]}
    IN  IF firsts = {} THEN -1 ELSE all_suits[Min(firsts)]

HasFlush(all_suits) ==
    \E k \in DOMAIN all_suits : CountOf(all_suits, all_suits[k]) >= 5

\* Mutant: the secondary rank does not count
FullHouseStrength_flat(best_trip, all_pairs) == 720 + 8 * best_trip

FullHouseStrength(best_trip, all_pairs) ==
    IF all_pairs # {}
    THEN 720 + 7 * best_trip + Max(all_pairs)
    ELSE 720 + 8 * best_trip

\* Mutant: the flush scaled over 0.10 instead of 0.09
FlushStrength_wide(best_flush_card) == 640 + 10 * best_flush_card

FlushStrength(best_flush_card) == 640 + 9 * best_flush_card

StraightStrength(straight_high) == 560 + 9 * straight_high

TripsStrength(best_trip) == 480 + 9 * best_trip

\* Mutant: the top pair weighted 0.20 instead of 0.10
TwoPairStrength_heavy(top_pair, second_pair) == 360 + 20 * top_pair + 4 * second_pair

\* Mutant: the weights of the two pairs exchanged
TwoPairStrength_swapped(top_pair, second_pair) == 360 + 4 * top_pair + 10 * second_pair

TwoPairStrength(top_pair, second_pair) == 360 + 10 * top_pair + 4 * second_pair

\* Mutant: the kicker bonus weighted 0.06 instead of 0.03
PairStrength_kicker_heavy(pair_rank, player_pair, kickers) ==
    LET kicker_value == IF kickers # {} THEN 6 * Max(kickers) ELSE 0
        base_value == IF player_pair THEN 240 + 12 * pair_rank
                      ELSE 200 + 10 * pair_rank
    IN  MinOf(352, base_value + kicker_value)

PairStrength(pair_rank, player_pair, kickers) ==
    LET kicker_value == IF kickers # {} THEN 3 * Max(kickers) ELSE 0
        base_value == IF player_pair THEN 240 + 12 * pair_rank
                      ELSE 200 + 10 * pair_rank
    IN  MinOf(352, base_value + kicker_value)

HighCardStrength(high) == 80 + 14 * high

get_strength_postflop(player_cards, community) ==
    LET player_ranks == [k \in DOMAIN player_cards |-> get_rank(player_cards[k])]
        all_ranks == player_ranks \o [k \in DOMAIN community |-> get_rank(community[k])]
        all_suits == [k \in DOMAIN player_cards |-> get_suit(player_cards[k])]
                        \o [k \in DOMAIN community |-> get_suit(community[k])]
        straight == has_straight_in_ranks(all_ranks)
        has_flush == HasFlush(all_suits)
        flush_suit == FlushSuit(all_suits)
        flush_ranks == IF has_flush
                       THEN SelectSeq([k \in DOMAIN all_ranks |-> <<all_ranks[k], all_suits[k]>>],
                                      LAMBDA p : p[2] = flush_suit)
                       ELSE <<>>
        flush_rank_list == [k \in DOMAIN flush_ranks |-> flush_ranks[k][1]]
        trips == {r \in Range(all_ranks) : CountOf(all_ranks, r) >= 3}
        pairs == {r \in Range(all_ranks) : CountOf(all_ranks, r) = 2}
    IN  IF has_flush /\ Len(flush_rank_list) >= 5
           /\ has_straight_in_ranks(flush_rank_list)[1]
        THEN <<792, HAND_RANKINGS.STRAIGHT_FLUSH>>
        ELSE IF trips # {} /\ (Cardinality(trips) > 1 \/ pairs # {})
        THEN LET best_trip == Max(trips)
                 all_pairs == pairs \cup (trips \ {best_trip})
             IN  <<FullHouseStrength(best_trip, all_pairs), HAND_RANKINGS.FULL_HOUSE>>
        ELSE IF has_flush
        THEN <<FlushStrength(Max(Range(flush_rank_list))), HAND_RANKINGS.FLUSH>>
        ELSE IF straight[1]
        THEN <<StraightStrength(straight[2]), HAND_RANKINGS.STRAIGHT>>
        ELSE IF trips # {}
        THEN <<TripsStrength(Max(trips)), HAND_RANKINGS.THREE_OF_KIND>>
        ELSE IF Cardinality(pairs) >= 2
        THEN LET top_pair == Max(pairs)
                 second_pair == Max(pairs \ {top_pair})
             IN  <<TwoPairStrength(top_pair, second_pair), HAND_RANKINGS.TWO_PAIR>>
        ELSE IF pairs # {}
        THEN LET pair_rank == Max(pairs)
                 player_pair == pair_rank \in Range(player_ranks)
                 kickers == Range(all_ranks) \ {pair_rank}
             IN  <<PairStrength(pair_rank, player_pair, kickers), HAND_RANKINGS.PAIR>>
        ELSE <<HighCardStrength(Max(Range(all_ranks))), HAND_RANKINGS.HIGH_CARD>>

\* str(rank + 2), or "A" for the Ace
RankStr(rank) == IF rank = 8 THEN "A" ELSE str(rank + 2)

\* {"d": "Diamonds", "h": "Hearts", "s": "Spades"}[self.suits[flush_suit]];
\* the suit -1 of the 'no card' sentinel indexes the list from its end
SuitName(flush_suit) ==
    CASE flush_suit = 0 -> "Diamonds"
      [] flush_suit = 1 -> "Hearts"
      [] flush_suit = 2 \/ flush_suit = -1 -> "Spades"

\* Mutant: a straight described by the top of its highest run
get_hand_description_top_run(player_cards, community) ==
    LET all_cards_arg == player_cards \o community
        all_ranks == [k \in DOMAIN all_cards_arg |-> get_rank(all_cards_arg[k])]
        all_suits == [k \in DOMAIN all_cards_arg |-> get_suit(all_cards_arg[k])]
        has_flush == HasFlush(all_suits)
        flush_suit == FlushSuit(all_suits)
        flush_ranks == IF has_flush
                       THEN SelectSeq([k \in DOMAIN all_ranks |-> <<all_ranks[k], all_suits[k]>>],
                                      LAMBDA p : p[2] = flush_suit)
                       ELSE <<>>
        flush_rank_list == [k \in DOMAIN flush_ranks |-> flush_ranks[k][1]]
        straight == has_straight_in_ranks(all_ranks)
        top == Max({r \in Range(all_ranks) : \A d \in 0..4 : r - d \in Range(all_ranks)}
                   \cup {straight[2]})
        trips == {r \in Range(all_ranks) : CountOf(all_ranks, r) >= 3}
        pairs == {r \in Range(all_ranks) : CountOf(all_ranks, r) = 2}
    IN  IF has_flush /\ Len(flush_rank_list) >= 5
           /\ has_straight_in_ranks(flush_rank_list)[1]
        THEN <<"Straight Flush", ", ",
               RankStr(has_straight_in_ranks(flush_rank_list)[2]),
               "-high (", SuitName(flush_suit), ")">>
        ELSE IF trips # {} /\ (Cardinality(trips) > 1 \/ pairs # {})
        THEN LET best_trip == Max(trips)
                 all_pairs == pairs \cup (trips \ {best_trip})
                 smallest_pair == IF pairs # {} THEN Min(pairs) ELSE 0
                 pair_rank == IF all_pairs # {} THEN RankStr(Max(all_pairs))
                              ELSE RankStr(smallest_pair)
             IN  <<"Full House", ", ", RankStr(best_trip), "s over ", pair_rank, "s">>
        ELSE IF has_flush
        THEN <<"Flush", ", ", RankStr(Max(Range(flush_rank_list))),
               "-high (", SuitName(flush_suit), ")">>
        ELSE IF straight[1]
        THEN IF top = 3 /\ 8 \in Range(all_ranks)
             THEN <<"Straight", ", ", "5", "-high (A-5)">>
             ELSE IF top = 8
             THEN <<"Straight", ", ", "A", "-high (9-A)">>
             ELSE <<"Straight", ", ", str(top + 2), "-high">>
        ELSE IF trips # {}
        THEN <<"Three of a Kind", ", ", RankStr(Max(trips)), "s">>
        ELSE IF Cardinality(pairs) >= 2
        THEN LET top_pair == Max(pairs)
                 second_pair == Max(pairs \ {top_pair})
             IN  <<"Two Pair", ", ", RankStr(top_pair), "s and ",
                   RankStr(second_pair), "s">>
        ELSE IF pairs # {}
        THEN <<"Pair", " of ", RankStr(Max(pairs)), "s">>
        ELSE <<"High Card", ", ", RankStr(Max(Range(all_ranks)))>>

\* The description, as the pieces of its format string in order (their
\* concatenation is the string the code returns)
get_hand_description(player_cards, community) ==
    LET all_cards_arg == player_cards \o community
        all_ranks == [k \in DOMAIN all_cards_arg |-> get_rank(all_cards_arg[k])]
        all_suits == [k \in DOMAIN all_cards_arg |-> get_suit(all_cards_arg[k])]
        has_flush == HasFlush(all_suits)
        flush_suit == FlushSuit(all_suits)
        flush_ranks == IF has_flush
                       THEN SelectSeq([k \in DOMAIN all_ranks |-> <<all_ranks[k], all_suits[k]>>],
                                      LAMBDA p : p[2] = flush_suit)
                       ELSE <<>>
        flush_rank_list == [k \in DOMAIN flush_ranks |-> flush_ranks[k][1]]
        straight == has_straight_in_ranks(all_ranks)
        straight_high == straight[2]
        trips == {r \in Range(all_ranks) : CountOf(all_ranks, r) >= 3}
        pairs == {r \in Range(all_ranks) : CountOf(all_ranks, r) = 2}
    IN  IF has_flush /\ Len(flush_rank_list) >= 5
           /\ has_straight_in_ranks(flush_rank_list)[1]
        THEN <<"Straight Flush", ", ",
               RankStr(has_straight_in_ranks(flush_rank_list)[2]),
               "-high (", SuitName(flush_suit), ")">>
        ELSE IF trips # {} /\ (Cardinality(trips) > 1 \/ pairs # {})
        THEN LET best_trip == Max(trips)
                 all_pairs == pairs \cup (trips \ {best_trip})
                 smallest_pair == IF pairs # {} THEN Min(pairs) ELSE 0
                 pair_rank == IF all_pairs # {} THEN RankStr(Max(all_pairs))
                              ELSE RankStr(smallest_pair)
             IN  <<"Full House", ", ", RankStr(best_trip), "s over ", pair_rank, "s">>
        ELSE IF has_flush
        THEN <<"Flush", ", ", RankStr(Max(Range(flush_rank_list))),
               "-high (", SuitName(flush_suit), ")">>
        ELSE IF straight[1]
        THEN IF straight_high = 3 /\ 8 \in Range(all_ranks)
             THEN <<"Straight", ", ", "5", "-high (A-5)">>
             ELSE IF straight_high = 8
             THEN <<"Straight", ", ", "A", "-high (9-A)">>
             ELSE <<"Straight", ", ", str(straight_high + 2), "-high">>
        ELSE IF trips # {}
        THEN <<"Three of a Kind", ", ", RankStr(Max(trips)), "s">>
        ELSE IF Cardinality(pairs) >= 2
        THEN LET top_pair == Max(pairs)
                 second_pair == Max(pairs \ {top_pair})
             IN  <<"Two Pair", ", ", RankStr(top_pair), "s and ",
                   RankStr(second_pair), "s">>
        ELSE IF pairs # {}
        THEN <<"Pair", " of ", RankStr(Max(pairs)), "s">>
        ELSE <<"High Card", ", ", RankStr(Max(Range(all_ranks)))>>


-----------------------------------------------------------------------------
(* Reference poker definitions, used to observe a hand (not taken from the
   classifier): the deciding ranks of a hand in a given category. *)

RanksOf(cards) == {c % 9 : c \in cards}
RankCount(cards, r) == Cardinality({c \in cards : c % 9 = r})
SuitCount(cards, s) == Cardinality({c \in cards : c \div 9 = s})

\* The five-rank runs of this deck, as <<set of ranks, straight-high>>: the
\* wheel 2-3-4-5-A (5-high), the regular runs, of which 6-7-8-9-A is the top.
StraightRuns == {<<{0, 1, 2, 3, 8}, 3>>} \cup {<<h - 4 .. h, h>> : h \in 4..8}

\* The straight-high of the best run among the ranks rs; -1 when there is none
StraightHigh(rs) ==
    LET highs == {run[2] : run \in {x \in StraightRuns : x[1] \subseteq rs}}
    IN  IF highs = {} THEN -1 ELSE Max(highs)

MaxOr(S, d) == IF S = {} THEN d ELSE Max(S)

\* The deciding ranks of a hand (a set of cards) read in category cat, most
\* significant first, ending with the top kicker where the category has one
\* (-1 when the hand has no such card).
DecidingRanks(cards, cat) ==
    LET rs == RanksOf(cards)
        ofCount(n) == {r \in rs : RankCount(cards, r) = n}
        atLeast(n) == {r \in rs : RankCount(cards, r) >= n}
    IN  CASE cat = HAND_RANKINGS.HIGH_CARD ->
               LET high == MaxOr(rs, -1) IN <<high, MaxOr(rs \ {high}, -1)>>
          [] cat = HAND_RANKINGS.PAIR ->
               LET p == MaxOr(atLeast(2), -1) IN <<p, MaxOr(rs \ {p}, -1)>>
          [] cat = HAND_RANKINGS.TWO_PAIR ->
               LET top == MaxOr(atLeast(2), -1)
                   second == MaxOr(atLeast(2) \ {top}, -1)
               IN  <<top, second, MaxOr(rs \ {top, second}, -1)>>
          [] cat = HAND_RANKINGS.THREE_OF_KIND ->
               LET t == MaxOr(atLeast(3), -1) IN <<t, MaxOr(rs \ {t}, -1)>>
          [] cat = HAND_RANKINGS.STRAIGHT -> <<StraightHigh(rs)>>
          [] cat = HAND_RANKINGS.FLUSH ->
               <<MaxOr({c % 9 : c \in {d \in cards : SuitCount(cards, d \div 9) >= 5}}, -1)>>
          [] cat = HAND_RANKINGS.FULL_HOUSE ->
               LET t == MaxOr(atLeast(3), -1)
               IN  <<t, MaxOr(atLeast(2) \ {t}, -1)>>
          [] OTHER -> <<>>

\* Whether a card of the hole pair has the rank of the hand's best pair
PairHeld(hole, cards) ==
    LET paired == {r \in RanksOf(cards) : RankCount(cards, r) >= 2}
    IN  paired # {} /\ Max(paired) \in RanksOf(hole)

\* Whether the two hole cards are themselves the hand's best pair
PocketPair(hole, cards) ==
    /\ Cardinality(RanksOf(hole)) = 1
    /\ PairHeld(hole, cards)

Summary(hole, board, s, r) ==
    LET cards == {c \in Range(hole) \cup Range(board) : c # -1}
    IN  [ranking |-> r, strength |-> s, key |-> DecidingRanks(cards, r),
         held |-> PairHeld(Range(hole), cards),
         pocket |-> PocketPair(Range(hole), cards)]

-----------------------------------------------------------------------------
(* Inputs *)

\* The order in which the cards of the deck are offered to the board: boards
\* are made of the first BoardDeckSize cards (As 4d 5d 6d 7h 4h 5s 9d ...).
BoardDeck == <<26, 2, 3, 4, 14, 11, 21, 7, 0, 1, 5, 6, 8, 9, 10, 12, 13, 15,
               16, 17, 18, 19, 20, 22, 23, 24, 25>>

BoardSets == {S \in SUBSET (1..BoardDeckSize) : Cardinality(S) <= MaxCommunity}

BoardOf(S) == LET pos == SortedSeq(S) IN [k \in 1..Len(pos) |-> BoardDeck[pos[k]]]

\* The notation of a card, from the evaluator's rank and suit alphabets
NotationOf(c) == <<ranks[(c % 9) + 1], suits[(c \div 9) + 1]>>

\* The board padded with the -1 'no card' sentinel to MaxCommunity entries
Padded(board) == board \o [k \in 1..(MaxCommunity - Len(board)) |-> -1]

NoHand == [strength |-> 0, hole_cards |-> <<>>, description |-> <<>>, ranking |-> 0]

-----------------------------------------------------------------------------
(* State machine *)

Init ==
    /\ pc = "idle"
    /\ fn = "none"
    /\ community_cards = <<>>
    /\ community_ints = <<>>
    /\ all_cards = <<>>
    /\ i = 0
    /\ j = 0
    /\ hole_cards = <<>>
    /\ hole_notation = <<>>
    /\ strength = 0
    /\ ranking = 0
    /\ best_hand = NoHand
    /\ worst_hand = NoHand
    /\ best_hand_strength = 0
    /\ ret = "none"
    /\ count = 0
    /\ visited = {}
    /\ classified = {}
    /\ op = "none"
    /\ arg = <<>>
    /\ out = [kind |-> "none"]
    /\ evaluator = [ranks |-> ranks, suits |-> suits, HAND_RANKINGS |-> HAND_RANKINGS]
    /\ repeated = FALSE
    /\ prev_ret = "none"
    /\ agent_pc = "new"
    /\ model_present = FALSE
    /\ hand_number = 0
    /\ discard_used = FALSE
    /\ last_observation = <<>>
    /\ info = <<>>
    /\ act_out = [kind |-> "none"]
    /\ game_state = <<>>
    /\ discards = 0
    /\ acts = 0

\* best_and_worst_hands, up to the loops: the board is parsed, the remaining
\* deck is built rank by rank ("23456789A") and suit by suit ("dhs").
RemainingDeckByNotation(ints) ==
    LET deck == [k \in 1..(NumRanks * NumSuits) |->
                    card_notation_to_int(<<ranks[((k - 1) \div NumSuits) + 1],
                                           suits[((k - 1) % NumSuits) + 1]>>)]
    IN  SelectSeq(deck, LAMBDA c : c \notin Range(ints))

\* bet_size_helper, up to the loops: range(9) ranks by range(3) suits.
RemainingDeckByIndex(ints) ==
    LET deck == [k \in 1..(NumRanks * NumSuits) |->
                    ((k - 1) % NumSuits) * 9 + ((k - 1) \div NumSuits)]
    IN  SelectSeq(deck, LAMBDA c : c \notin Range(ints))

\* The prologue of best_and_worst_hands on the list community
EnterBestAndWorstHands(community) ==
    LET ints == [k \in DOMAIN community |-> card_notation_to_int(community[k])]
    IN  /\ community_cards' = community
        /\ community_ints' = ints
        /\ all_cards' = RemainingDeckByNotation(ints)
        /\ fn' = "best_and_worst_hands"
        /\ best_hand' = [strength |-> -1 * Unit, hole_cards |-> <<>>,
                         description |-> <<>>, ranking |-> -1]
        /\ worst_hand' = [strength |-> 2 * Unit, hole_cards |-> <<>>,
                          description |-> <<>>, ranking |-> 8]
        /\ i' = 1
        /\ j' = 2
        /\ pc' = "loop"
        /\ UNCHANGED <<hole_cards, hole_notation, strength, ranking,
                       best_hand_strength, ret>>

\* The prologue of bet_size_helper on the list community
EnterBetSizeHelper(community) ==
    /\ community_cards' = community
    /\ community_ints' = community
    /\ IF community = <<>>
       THEN /\ ret' = Unit \div 2
            /\ pc' = "done"
            /\ UNCHANGED <<all_cards, best_hand_strength, i, j>>
       ELSE /\ all_cards' = RemainingDeckByIndex(community)
            /\ best_hand_strength' = -1 * Unit
            /\ i' = 1
            /\ j' = 2
            /\ pc' = "loop"
            /\ UNCHANGED ret
    /\ fn' = "bet_size_helper"
    /\ UNCHANGED <<hole_cards, hole_notation, strength, ranking, best_hand,
                   worst_hand>>

CallBestAndWorstHands ==
    /\ pc = "idle"
    /\ op = "none"
    /\ \E S \in BoardSets :
         EnterBestAndWorstHands([k \in DOMAIN BoardOf(S) |-> NotationOf(BoardOf(S)[k])])
    /\ UNCHANGED <<count, visited, classified>>
    /\ UNCHANGED <<callVars, selfVars, agentVars>>

CallBetSizeHelper ==
    /\ pc = "idle"
    /\ op = "none"
    /\ \E S \in BoardSets : \E pad \in BOOLEAN :
         EnterBetSizeHelper(IF pad THEN Padded(BoardOf(S)) ELSE BoardOf(S))
    /\ UNCHANGED <<count, visited, classified>>
    /\ UNCHANGED <<callVars, selfVars, agentVars>>

\* The caller makes the call that has just returned once more, on the same list
CallAgain ==
    /\ pc = "done"
    /\ ~repeated
    /\ repeated' = TRUE
    /\ prev_ret' = ret
    /\ IF fn = "best_and_worst_hands"
       THEN EnterBestAndWorstHands(community_cards)
       ELSE EnterBetSizeHelper(community_cards)
    /\ count' = 0
    /\ visited' = {}
    /\ UNCHANGED <<classified, evaluator, callVars, agentVars>>

\* Mutant: the inner loop restarts at i instead of i + 1
NextPair_from_same(a, b, n) == IF b < n THEN <<a, b + 1>> ELSE <<a + 1, a + 1>>

\* for i in range(n): for j in range(i + 1, n): the pair after (a, b)
NextPair(a, b, n) == IF b < n THEN <<a, b + 1>> ELSE <<a + 1, a + 2>>

\* One iteration of the nested loops: classify the pair (i, j), update the
\* running best (and worst), and move to the next pair.
ClassifyPair ==
    /\ pc = "loop"
    /\ j <= Len(all_cards)
    /\ LET hole == <<all_cards[i], all_cards[j]>>
           res == get_strength_postflop(hole, community_ints)
       IN  /\ hole_cards' = hole
           /\ strength' = res[1]
           /\ ranking' = res[2]
           /\ IF fn = "best_and_worst_hands"
              THEN LET notation == [k \in DOMAIN hole |-> int_to_card_notation(hole[k])]
                       this == [strength |-> res[1], hole_cards |-> notation,
                                description |-> get_hand_description(hole, community_ints),
                                ranking |-> res[2]]
                   IN  /\ hole_notation' = notation
                       /\ best_hand' = IF res[1] > best_hand.strength
                                       THEN this ELSE best_hand
                       /\ worst_hand' = IF res[1] < worst_hand.strength
                                        THEN this ELSE worst_hand
                       /\ UNCHANGED best_hand_strength
              ELSE /\ best_hand_strength' = IF res[1] > best_hand_strength
                                            THEN res[1] ELSE best_hand_strength
                   /\ UNCHANGED <<hole_notation, best_hand, worst_hand>>
           /\ classified' = classified \cup {Summary(hole, community_ints, res[1], res[2])}
    /\ count' = count + 1
    /\ visited' = visited \cup {{all_cards[i], all_cards[j]}}
    /\ i' = NextPair(i, j, Len(all_cards))[1]
    /\ j' = NextPair(i, j, Len(all_cards))[2]
    /\ UNCHANGED <<pc, fn, community_cards, community_ints, all_cards, ret>>
    /\ UNCHANGED <<callVars, selfVars, agentVars>>

\* Mutant: the call empties the list it was given before it returns
Return_consuming ==
    /\ pc = "loop"
    /\ j > Len(all_cards)
    /\ ret' = IF fn = "best_and_worst_hands"
              THEN [best_hand |-> best_hand, worst_hand |-> worst_hand,
                    community_cards |-> <<>>]
              ELSE best_hand_strength
    /\ pc' = "done"
    /\ community_cards' = <<>>
    /\ UNCHANGED <<fn, community_ints, all_cards, i, j,
                   hole_cards, hole_notation, strength, ranking, best_hand,
                   worst_hand, best_hand_strength, count, visited, classified>>
    /\ UNCHANGED <<callVars, selfVars, agentVars>>

\* The loops are exhausted: the call returns.
Return ==
    /\ pc = "loop"
    /\ j > Len(all_cards)
    /\ ret' = IF fn = "best_and_worst_hands"
              THEN [best_hand |-> best_hand, worst_hand |-> worst_hand,
                    community_cards |-> community_cards]
              ELSE best_hand_strength
    /\ pc' = "done"
    /\ UNCHANGED <<fn, community_cards, community_ints, all_cards, i, j,
                   hole_cards, hole_notation, strength, ranking, best_hand,
                   worst_hand, best_hand_strength, count, visited, classified>>
    /\ UNCHANGED <<callVars, selfVars, agentVars>>

Next ==
    \/ CallBestAndWorstHands
    \/ CallBetSizeHelper
    \/ ClassifyPair
    \/ Return

Spec == Init /\ [][Next]_vars

-----------------------------------------------------------------------------
(* Direct calls of the evaluator's methods: one call, on any of the inputs *)

Deck == 0..(NumRanks * NumSuits - 1)

\* Lists of at most n distinct cards
RECURSIVE CardLists(_)
CardLists(n) ==
    IF n = 0 THEN {<<>>}
    ELSE LET shorter == CardLists(n - 1)
         IN  shorter \cup UNION {{Append(l, c) : c \in Deck \ Range(l)} :
                                     l \in {x \in shorter : Len(x) = n - 1}}

\* The characters offered to the parser
Chars == {"0", "1", "2", "3", "4", "5", "6", "7", "8", "9", "A", "a", "K", "k",
          "T", "t", "D", "d", "H", "h", "S", "s", "C", "c", "?"}

Returned(v) == [kind |-> "return", value |-> v]
Raised(e) == [kind |-> e]

CallGetStrengthPreflop ==
    /\ pc = "idle"
    /\ op = "none"
    /\ \E cards \in CardLists(2) :
         /\ arg' = cards
         /\ out' = Returned(get_strength_preflop(cards))
    /\ op' = "get_strength_preflop"
    /\ UNCHANGED <<evalVars, selfVars, agentVars>>

\* With no card at all the high card branch indexes an empty list
get_strength_postflop_raises(player_cards, community) ==
    Len(player_cards) + Len(community) = 0

CallGetStrengthPostflop ==
    /\ pc = "idle"
    /\ op = "none"
    /\ \E cards \in CardLists(MaxDirectCards) : \E n \in 0..Len(cards) :
         LET player_cards == SubSeq(cards, 1, n)
             community == SubSeq(cards, n + 1, Len(cards))
         IN  /\ arg' = <<player_cards, community>>
             /\ out' = IF get_strength_postflop_raises(player_cards, community)
                       THEN Raised("IndexError")
                       ELSE Returned(get_strength_postflop(player_cards, community))
    /\ op' = "get_strength_postflop"
    /\ UNCHANGED <<evalVars, selfVars, agentVars>>

CallCardNotationToInt ==
    /\ pc = "idle"
    /\ op = "none"
    /\ \E a \in Chars, b \in Chars :
         /\ arg' = <<a, b>>
         /\ out' = IF card_notation_raises(<<a, b>>)
                   THEN Raised("ValueError")
                   ELSE Returned(card_notation_to_int(<<a, b>>))
    /\ op' = "card_notation_to_int"
    /\ UNCHANGED <<evalVars, selfVars, agentVars>>

DecoderInputs == (0 - OutOfRangeMargin)..(NumRanks * NumSuits - 1 + OutOfRangeMargin)

CallGetRank ==
    /\ pc = "idle"
    /\ op = "none"
    /\ \E card \in DecoderInputs :
         /\ arg' = card
         /\ out' = Returned(get_rank(card))
    /\ op' = "get_rank"
    /\ UNCHANGED <<evalVars, selfVars, agentVars>>

CallGetSuit ==
    /\ pc = "idle"
    /\ op = "none"
    /\ \E card \in DecoderInputs :
         /\ arg' = card
         /\ out' = Returned(get_suit(card))
    /\ op' = "get_suit"
    /\ UNCHANGED <<evalVars, selfVars, agentVars>>

CallIntToCardNotation ==
    /\ pc = "idle"
    /\ op = "none"
    /\ \E card \in DecoderInputs :
         /\ arg' = card
         /\ out' = Returned(int_to_card_notation(card))
    /\ op' = "int_to_card_notation"
    /\ UNCHANGED <<evalVars, selfVars, agentVars>>

NextCalls ==
    \/ CallGetStrengthPreflop
    \/ CallGetStrengthPostflop
    \/ CallCardNotationToInt
    \/ CallGetRank
    \/ CallGetSuit
    \/ CallIntToCardNotation

SpecCalls == Init /\ [][NextCalls]_vars

\* The enumerators, each call possibly made a second time, and the direct calls
NextRepeat ==
    \/ CallBestAndWorstHands
    \/ CallBetSizeHelper
    \/ ClassifyPair
    \/ Return
    \/ CallAgain
    \/ CallGetStrengthPreflop
    \/ CallGetStrengthPostflop
    \/ CallCardNotationToInt
    \/ CallGetRank
    \/ CallGetSuit
    \/ CallIntToCardNotation

SpecRepeat == Init /\ [][NextRepeat]_vars

-----------------------------------------------------------------------------
(* poker_utils.get_hand_strength, the simplified evaluator behind the state
   encoding.  Its values are kept in units of 1/90: 1.0 is 90, 0.4 is 36 and
   the high-card value 0.1 + (highest_rank / 9.0) * 0.2 is 9 + 2 * rank. *)

HandStrengthUnit == 90

get_hand_strength(hole_cards_arg, community_arg) ==
    LET hole == SelectSeq(hole_cards_arg, LAMBDA c : c >= 0)
        community == SelectSeq(community_arg, LAMBDA c : c >= 0)
        cards == hole \o community
        rank_list == [k \in DOMAIN cards |-> cards[k] % 9]
        suit_list == [k \in DOMAIN cards |-> cards[k] \div 9]
        rank_counts == [r \in 0..8 |-> CountOf(rank_list, r)]
        max_rank_count == Max({rank_counts[r] : r \in 0..8})
        max_suit_count == Max({CountOf(suit_list, s) : s \in 0..2})
        sorted_ranks == SortedSeq(Range(rank_list))
        wheel == {0, 1, 2, 3, 8} \subseteq Range(rank_list)
        regular == /\ Len(cards) >= 5
                   /\ \E k \in 1..(Len(sorted_ranks) - 4) :
                          \A d \in 0..4 : sorted_ranks[k + d] = sorted_ranks[k] + d
        has_straight == wheel \/ regular
    IN  IF hole = <<>> THEN 0
        ELSE IF max_suit_count >= 5 /\ has_straight THEN 90
        ELSE IF max_rank_count >= 3 /\ CountOf(rank_list, 2) >= 2 THEN 81
        ELSE IF max_suit_count >= 5 THEN 72
        ELSE IF has_straight THEN 63
        ELSE IF max_rank_count >= 3 THEN 54
        ELSE IF Cardinality({r \in 0..8 : rank_counts[r] = 2}) >= 2 THEN 45
        ELSE IF max_rank_count >= 2 THEN 36
        ELSE 9 + 2 * Max(Range(rank_list))

-----------------------------------------------------------------------------
(* poker_utils: the state encoding handed to the policy network.  Entries
   are kept as the integers the code divides (street / 3.0, bets / 100.0,
   pot / 200.0), the hand strength in 1/90 and pot odds as num/den. *)

\* PokerEnv.ActionType values, in the order of the action mask
FOLD == 0
RAISE == 1
CHECK == 2
CALL == 3
DISCARD == 4

encode_cards(cards) ==
    [c \in 1..27 |-> IF \E k \in DOMAIN cards : cards[k] >= 0 /\ cards[k] = c - 1
                     THEN 1 ELSE 0]

calculate_pot_odds(my_bet, opp_bet) ==
    LET call_amount == Max({0, opp_bet - my_bet})
        pot_size == my_bet + opp_bet
    IN  IF call_amount = 0 \/ pot_size = 0
        THEN [num |-> 0, den |-> 1]
        ELSE [num |-> call_amount, den |-> pot_size + call_amount]

encode_game_state(observation, hand_strength, opponent_aggression, discard_flag) ==
    LET discard_info == <<IF observation.opp_discarded_card >= 0 THEN 1 ELSE 0,
                          IF discard_flag THEN 1 ELSE 0>>
        pot_size == observation.my_bet + observation.opp_bet
        pot_odds == calculate_pot_odds(observation.my_bet, observation.opp_bet)
    IN  <<observation.street>>
            \o <<observation.my_bet, observation.opp_bet>>
            \o <<pot_size, pot_odds>>
            \o <<observation.min_raise, observation.max_raise>>
            \o <<hand_strength>>
            \o <<opponent_aggression>>
            \o discard_info
            \o encode_cards(observation.my_cards)
            \o encode_cards(observation.community_cards)

get_action_mask(observation) ==
    [k \in 1..6 |->
        IF k <= 4 THEN (IF observation.valid_actions[k] THEN 1 ELSE 0)
        ELSE IF k = 5 THEN 1
        ELSE IF observation.valid_actions[DISCARD + 1] THEN 1 ELSE 0]

-----------------------------------------------------------------------------
(* PlayerAgent (player.py): act and the decisions it delegates to.  A
   decision is a record [kind, action_type, raise_amount, card_to_discard,
   used], where kind is "return" or the exception raised and used is the
   value of self.discard_used afterwards. *)

\* input_dim of the policy network and of the predictor's input signature
input_dim == 42

\* self.value_bet_threshold = 0.7 and the medium-hand threshold 0.4, in 1/90
value_bet_threshold == 63
medium_threshold == 36

\* valid_action_indices: the indices of the true entries, in increasing order
ValidIndices(valid_actions) ==
    SortedSeq({k \in 0..(Len(valid_actions) - 1) : valid_actions[k + 1]})

Decision(a, r, c, u) ==
    [kind |-> "return", action_type |-> a, raise_amount |-> r,
     card_to_discard |-> c, used |-> u]

Failure(e, u) ==
    [kind |-> e, action_type |-> -1, raise_amount |-> 0, card_to_discard |-> -1,
     used |-> u]

\* pot_odds <= hand_strength * factor_tenths / 10, hand_strength in 1/90
PotOddsAtMost(pot_odds, hand_strength, factor_tenths) ==
    pot_odds.num * 900 <= hand_strength * factor_tenths * pot_odds.den

\* if action_type is None or action_type not in valid_action_indices: ...
DefaultAction(action_type, valid) ==
    IF action_type \in Range(valid) THEN action_type
    ELSE IF CHECK \in Range(valid) THEN CHECK
    ELSE IF CALL \in Range(valid) THEN CALL
    ELSE valid[1]

\* rule_based_decision: the set of its possible outcomes (random.random()
\* decides the bluffs)
rule_based_decision(observation, hand_strength, used) ==
    LET my_cards == observation.my_cards
        pot_odds == calculate_pot_odds(observation.my_bet, observation.opp_bet)
        valid == ValidIndices(observation.valid_actions)
        can(a) == a \in Range(valid)
        min_raise == observation.min_raise
        max_raise == observation.max_raise
        card1_value == get_hand_strength(<<my_cards[1]>>, <<>>)
        card2_value == get_hand_strength(<<my_cards[2]>>, <<>>)
        gap == IF card1_value < card2_value THEN card2_value - card1_value
               ELSE card1_value - card2_value
        raise_factor == MinOf(90, hand_strength + 9)
        strong_raise == MinOf(max_raise,
                            Max({min_raise,
                                 min_raise + ((max_raise - min_raise) * raise_factor) \div 90}))
        Finish(a, r) == IF valid = <<>>
                        THEN Failure("IndexError", used)
                        ELSE Decision(DefaultAction(a, valid), r, -1, used)
    IN  IF can(DISCARD) /\ ~used /\ observation.street < 2
           /\ MinOf(card1_value, card2_value) < 27 /\ gap > 18
        THEN {Decision(DISCARD, 0, IF card1_value < card2_value THEN 0 ELSE 1, TRUE)}
        ELSE IF hand_strength > value_bet_threshold
        THEN {IF can(RAISE) THEN Finish(RAISE, strong_raise)
              ELSE IF can(CALL) THEN Finish(CALL, 0)
              ELSE Finish(CHECK, 0)}
        ELSE IF hand_strength > medium_threshold
        THEN {IF bluff /\ can(RAISE) THEN Finish(RAISE, min_raise)
              ELSE IF can(CALL) /\ PotOddsAtMost(pot_odds, hand_strength, 13)
                   THEN Finish(CALL, 0)
              ELSE IF can(CHECK) THEN Finish(CHECK, 0)
              ELSE Finish(FOLD, 0) : bluff \in BOOLEAN}
        ELSE {IF bluff /\ can(RAISE) THEN Finish(RAISE, min_raise)
              ELSE IF can(CHECK) THEN Finish(CHECK, 0)
              ELSE IF can(CALL) /\ PotOddsAtMost(pot_odds, hand_strength, 20)
                   THEN Finish(CALL, 0)
              ELSE Finish(FOLD, 0) : bluff \in BOOLEAN}

\* quick_decision
quick_decision(observation, used) ==
    LET valid == ValidIndices(observation.valid_actions)
    IN  IF CHECK \in Range(valid) THEN Decision(CHECK, 0, -1, used)
        ELSE IF CALL \in Range(valid) THEN Decision(CALL, 0, -1, used)
        ELSE IF valid = <<>> THEN Failure("IndexError", used)
        ELSE Decision(valid[1], IF valid[1] = RAISE THEN observation.min_raise ELSE 0,
                      -1, used)

\* The outputs the network may give: each of the six entries 0.0 or 1.0
ProbLevels == {0, 1}
ProbVectors == [1..6 -> ProbLevels]

\* np.argmax over the first four masked entries (0-based, first maximum)
ArgMax4(masked) ==
    Min({k \in 0..3 : \A m \in 0..3 : masked[m + 1] <= masked[k + 1]})

\* act after the predictor has answered action_probs: the set of outcomes
ModelDecision(observation, hand_strength, used, action_probs) ==
    LET action_mask == get_action_mask(observation)
        masked_probs == [k \in 1..6 |-> action_probs[k] * action_mask[k]]
        valid == ValidIndices(observation.valid_actions)
        my_cards == observation.my_cards
        min_raise == observation.min_raise
        raise_range == observation.max_raise - min_raise
        action_idx == ArgMax4(masked_probs)
        chosen == IF action_idx < Len(valid) THEN valid[action_idx + 1] ELSE valid[1]
        raise_amount == IF chosen # RAISE THEN 0
                        ELSE IF raise_range > 0
                        THEN min_raise + action_probs[5] * raise_range
                        ELSE min_raise
        hand_value == <<get_hand_strength(<<my_cards[1]>>, <<>>),
                        get_hand_strength(<<my_cards[2]>>, <<>>)>>
    IN  IF masked_probs[1] + masked_probs[2] + masked_probs[3] + masked_probs[4] = 0
        THEN {IF d.kind = "return"
              THEN Decision(<<d.action_type, d.raise_amount, d.card_to_discard>>,
                            0, -1, d.used)
              ELSE d : d \in rule_based_decision(observation, hand_strength, used)}
        ELSE IF DISCARD \in Range(valid) /\ ~used
                /\ action_probs[6] = 1 /\ observation.street < 2
        THEN {Decision(DISCARD, raise_amount,
                       IF hand_value[1] < hand_value[2] THEN 0 ELSE 1, TRUE)}
        ELSE {Decision(chosen, raise_amount, -1, used)}

\* The body of act's try block: the set of <<decision, path, encoded state>>
TryBlock(observation, used) ==
    LET hand_strength == get_hand_strength(observation.my_cards,
                                           observation.community_cards)
        state == encode_game_state(observation, hand_strength, 1, used)
    IN  IF model_present
        THEN (IF Len(state) # input_dim
              THEN {<<Failure("IncompatibleInput", used), "model", state>>}
              ELSE {<<d, "model", state>> :
                       d \in UNION {ModelDecision(observation, hand_strength, used, p) :
                                        p \in ProbVectors}})
             \cup {<<quick_decision(observation, used), "quick", game_state>>}
        ELSE {<<d, "rule", game_state>> :
                 d \in rule_based_decision(observation, hand_strength, used)}

\* except Exception: a random valid action, min_raise if it is a raise
Fallback(observation, used) ==
    LET valid == ValidIndices(observation.valid_actions)
    IN  IF valid = <<>> THEN {Failure("IndexError", used)}
        ELSE {Decision(a, IF a = RAISE THEN observation.min_raise ELSE 0, -1, used) :
                 a \in Range(valid)}

\* The observations offered to act
Scenarios ==
    {[street |-> 0, my_cards |-> <<0, 8>>, community_cards |-> <<-1, -1, -1, -1, -1>>,
      my_bet |-> 2, opp_bet |-> 10],
     [street |-> 0, my_cards |-> <<0, 1>>, community_cards |-> <<-1, -1, -1, -1, -1>>,
      my_bet |-> 2, opp_bet |-> 10],
     [street |-> 1, my_cards |-> <<2, 11>>, community_cards |-> <<3, 12, 26, -1, -1>>,
      my_bet |-> 2, opp_bet |-> 10],
     [street |-> 3, my_cards |-> <<4, 6>>, community_cards |-> <<0, 2, 8, 9, 18>>,
      my_bet |-> 2, opp_bet |-> 2]}

Observations ==
    {[street |-> s.street, my_cards |-> s.my_cards,
      community_cards |-> s.community_cards, my_bet |-> s.my_bet,
      opp_bet |-> s.opp_bet, opp_discarded_card |-> -1, opp_drawn_card |-> -1,
      min_raise |-> MinRaise, max_raise |-> MaxRaise, valid_actions |-> v] :
        s \in Scenarios, v \in [1..5 -> BOOLEAN]}

\* PlayerAgent.__init__: initialize_model either builds the network or,
\* on any exception, leaves self.model = None
InitializeModel ==
    /\ agent_pc = "new"
    /\ model_present' \in BOOLEAN
    /\ agent_pc' = "ready"
    /\ UNCHANGED <<hand_number, discard_used, last_observation, info, act_out,
                   game_state, discards, acts>>
    /\ UNCHANGED <<evalVars, callVars, selfVars>>

\* One call of act
Act ==
    /\ agent_pc = "ready"
    /\ acts < MaxActs
    /\ acts' = acts + 1
    /\ \E obs \in Observations, hn \in 1..MaxHandNumber :
         LET reset == obs.street = 0 /\ hn # hand_number
             used == IF reset THEN FALSE ELSE discard_used
             since == IF reset THEN 0 ELSE discards
         IN  /\ last_observation' = obs
             /\ info' = [hand_number |-> hn]
             /\ hand_number' = IF reset THEN hn ELSE hand_number
             /\ \E t \in TryBlock(obs, used) :
                  \E d \in (IF t[1].kind = "return" THEN {t[1]} ELSE Fallback(obs, t[1].used)) :
                     /\ act_out' = [kind |-> d.kind, action_type |-> d.action_type,
                                    raise_amount |-> d.raise_amount,
                                    card_to_discard |-> d.card_to_discard,
                                    path |-> IF t[1].kind = "return" THEN t[2] ELSE "except"]
                     /\ discard_used' = d.used
                     /\ game_state' = t[3]
                     /\ discards' = IF d.kind = "return" /\ d.action_type = DISCARD
                                    THEN MinOf(since + 1, 2) ELSE since
    /\ UNCHANGED <<agent_pc, model_present>>
    /\ UNCHANGED <<evalVars, callVars, selfVars>>

NextAgent ==
    \/ InitializeModel
    \/ Act

SpecAgent == Init /\ [][NextAgent]_vars

-----------------------------------------------------------------------------
(* redraw_strategies.choose_card_to_discard.  The evaluator's evaluate_hand
   is not part of HandEvaluator; its two answers <<hand_type, kickers>> are
   inputs of the call. *)

get_rank_value(rank_index) == IF rank_index = 8 THEN 10 ELSE rank_index + 2

\* The community lists offered to choose_card_to_discard
DiscardBoards == {<<>>, <<-1, -1, -1, -1, -1>>, <<3, 12, 26, -1, -1>>, <<3, 4, 23, 14, -1>>}

\* The answers of evaluate_hand: a hand type with its kickers
HandTypes == 0..1
EvaluateHandAnswers == {<<t, k>> : t \in HandTypes, k \in {<<>>, <<5>>, <<6>>}}

\* The set of indices choose_card_to_discard may return (random.randint
\* decides for a pocket pair before the flop)
choose_card_to_discard(my_cards, community_cards_arg, eval0, eval1) ==
    IF Len(my_cards) = 1 THEN {0}
    ELSE IF \A k \in DOMAIN community_cards_arg : community_cards_arg[k] = -1
    THEN LET rank0 == get_rank(my_cards[1])
             rank1 == get_rank(my_cards[2])
         IN  IF rank0 = rank1 THEN {0, 1}
             ELSE IF rank0 = 8 THEN {1}
             ELSE IF rank1 = 8 THEN {0}
             ELSE IF rank0 < rank1 THEN {0} ELSE {1}
    ELSE LET hand_type0 == eval0[1]
             kickers0 == eval0[2]
             hand_type1 == eval1[1]
             kickers1 == eval1[2]
             suit0 == get_suit(my_cards[1])
             suit1 == get_suit(my_cards[2])
             suit0_matches == Cardinality({k \in DOMAIN community_cards_arg :
                                  /\ community_cards_arg[k] # -1
                                  /\ get_suit(community_cards_arg[k]) = suit0})
             suit1_matches == Cardinality({k \in DOMAIN community_cards_arg :
                                  /\ community_cards_arg[k] # -1
                                  /\ get_suit(community_cards_arg[k]) = suit1})
             rank0 == get_rank_value(get_rank(my_cards[1]))
             rank1 == get_rank_value(get_rank(my_cards[2]))
         IN  IF hand_type0 > hand_type1 THEN {1}
             ELSE IF hand_type1 > hand_type0 THEN {0}
             ELSE IF kickers0 # <<>> /\ kickers1 # <<>> /\ kickers0[1] > kickers1[1] THEN {1}
             ELSE IF kickers0 # <<>> /\ kickers1 # <<>> /\ kickers1[1] > kickers0[1] THEN {0}
             ELSE IF suit0_matches > suit1_matches THEN {1}
             ELSE IF suit1_matches > suit0_matches THEN {0}
             ELSE IF rank0 > rank1 THEN {0} ELSE {1}

CallChooseCardToDiscard ==
    /\ pc = "idle"
    /\ op = "none"
    /\ \E cards \in {l \in CardLists(2) : Len(l) >= 1 /\ Range(l) \subseteq DiscardDeck},
          board \in DiscardBoards, eval0, eval1 \in EvaluateHandAnswers :
         /\ Range(cards) \cap Range(board) = {}
         /\ \E index \in choose_card_to_discard(cards, board, eval0, eval1) :
              /\ arg' = <<cards, board, eval0, eval1>>
              /\ out' = Returned(index)
    /\ op' = "choose_card_to_discard"
    /\ UNCHANGED <<evalVars, selfVars, agentVars>>

NextRedraw == CallChooseCardToDiscard

SpecRedraw == Init /\ [][NextRedraw]_vars

-----------------------------------------------------------------------------
(* Observations shared by the properties *)

\* The last iteration classified a hand made of cards only (no -1 entry)
Valid == count > 0 /\ -1 \notin Range(community_ints)

\* The cards of the hand classified by the last iteration
HandCards == {c \in Range(hole_cards) \cup Range(community_ints) : c # -1}

Current == Summary(hole_cards, community_ints, strength, ranking)

Card(r, s) == card_notation_to_int(<<r, s>>)

\* Hands written out in the repository: the known comparisons of the spec
\* (pairs of aces, sevens and twos) and the example hands of hand_evaluator.py.
LiteralHands ==
    { [hole |-> <<Card("A", "s"), Card("A", "d")>>,
       board |-> <<Card("3", "h"), Card("5", "d"), Card("7", "s")>>],
      [hole |-> <<Card("7", "s"), Card("7", "d")>>,
       board |-> <<Card("3", "h"), Card("5", "d"), Card("9", "s")>>],
      [hole |-> <<Card("2", "s"), Card("2", "d")>>,
       board |-> <<Card("3", "h"), Card("5", "d"), Card("7", "s")>>],
      [hole |-> <<Card("A", "d"), Card("9", "h")>>,
       board |-> <<Card("A", "s"), Card("7", "d"), Card("2", "h")>>],
      [hole |-> <<Card("7", "h"), Card("A", "s")>>,
       board |-> <<Card("7", "s"), Card("7", "d"), Card("2", "h")>>],
      [hole |-> <<Card("2", "d"), Card("4", "h")>>,
       board |-> <<Card("A", "s"), Card("9", "s"), Card("8", "s")>>],
      [hole |-> <<Card("9", "s"), Card("5", "h")>>,
       board |-> <<Card("6", "s"), Card("7", "d"), Card("8", "h"), Card("3", "d")>>],
      [hole |-> <<Card("9", "s"), Card("7", "h")>>,
       board |-> <<Card("7", "s"), Card("7", "d"), Card("9", "h"), Card("9", "d"),
                   Card("2", "s")>>] }

SummaryOf(h) ==
    LET res == get_strength_postflop(h.hole, h.board)
    IN  Summary(h.hole, h.board, res[1], res[2])

LiteralSummaries == {SummaryOf(h) : h \in LiteralHands}

\* The hands the current one is compared with: those classified earlier by
\* this call (made of cards only) and the literal hands.
Others == IF Valid THEN classified \cup LiteralSummaries ELSE {}

-----------------------------------------------------------------------------
(* C1: category monotonicity.  Whenever a hand of 2-7 distinct cards has just
   been classified, every hand classified before it by the same call, and
   every literal hand, that has a lower ranking has a strictly lower strength,
   and every one with a higher ranking a strictly higher strength. *)
C1_CategoryMonotone ==
    \A b \in Others :
        /\ ranking > b.ranking => strength > b.strength
        /\ ranking < b.ranking => strength < b.strength

\* The best pair (0.44) has just been classified after a two pair
C1_Witness ==
    /\ Valid
    /\ ranking = HAND_RANKINGS.PAIR
    /\ strength = 352
    /\ \E b \in classified : b.ranking = HAND_RANKINGS.TWO_PAIR

-----------------------------------------------------------------------------
(* The standard category of five cards, and the best category of a hand *)

Category5(five) ==
    LET rs == RanksOf(five)
        flush == Cardinality({c \div 9 : c \in five}) = 1
        straight == \E run \in StraightRuns : rs = run[1]
        three == \E r \in rs : RankCount(five, r) = 3
        twos == Cardinality({r \in rs : RankCount(five, r) = 2})
    IN  IF flush /\ straight THEN HAND_RANKINGS.STRAIGHT_FLUSH
        ELSE IF three /\ twos = 1 THEN HAND_RANKINGS.FULL_HOUSE
        ELSE IF flush THEN HAND_RANKINGS.FLUSH
        ELSE IF straight THEN HAND_RANKINGS.STRAIGHT
        ELSE IF three THEN HAND_RANKINGS.THREE_OF_KIND
        ELSE IF twos = 2 THEN HAND_RANKINGS.TWO_PAIR
        ELSE IF twos = 1 THEN HAND_RANKINGS.PAIR
        ELSE HAND_RANKINGS.HIGH_CARD

BestCategory(cards) ==
    Max({Category5(five) : five \in {F \in SUBSET cards : Cardinality(F) = 5}})

(* C2: for every hand of 5 to 7 distinct cards the ranking returned by
   get_strength_postflop is the best standard category of any five of its
   cards. *)
C2_BestFiveCardCategory ==
    (Valid /\ Cardinality(HandCards) >= 5) => ranking = BestCategory(HandCards)

\* A seven-card hand holding the wheel and a pair is classified a straight
C2_Witness ==
    /\ Valid
    /\ Cardinality(HandCards) = 7
    /\ RanksOf(HandCards) = {0, 1, 2, 3, 5, 8}
    /\ ranking = HAND_RANKINGS.STRAIGHT

-----------------------------------------------------------------------------
\* The band of each ranking, <<lowest, highest>> strength in units of 1/800:
\* 0.10-0.24, 0.25-0.44, 0.45-0.59, 0.60-0.69, 0.70-0.79, 0.80-0.89,
\* 0.90-0.98 and 0.99.
Band == [r \in 0..7 |->
            CASE r = HAND_RANKINGS.HIGH_CARD -> <<80, 192>>
              [] r = HAND_RANKINGS.PAIR -> <<200, 352>>
              [] r = HAND_RANKINGS.TWO_PAIR -> <<360, 472>>
              [] r = HAND_RANKINGS.THREE_OF_KIND -> <<480, 552>>
              [] r = HAND_RANKINGS.STRAIGHT -> <<560, 632>>
              [] r = HAND_RANKINGS.FLUSH -> <<640, 712>>
              [] r = HAND_RANKINGS.FULL_HOUSE -> <<720, 784>>
              [] r = HAND_RANKINGS.STRAIGHT_FLUSH -> <<792, 792>>]

-----------------------------------------------------------------------------
\* Every deciding rank of k1 is at least the corresponding one of k2
AtLeast(k1, k2) ==
    /\ Len(k1) = Len(k2)
    /\ \A n \in DOMAIN k1 : k1[n] >= k2[n]

(* C4: within a category the strength is non-decreasing in the deciding
   ranks and the top kicker: of two hands of the same ranking (two pairs
   being compared when both or neither involve a hole card, the two cases
   the one pair branch scores apart), the one whose deciding ranks are each
   at least the other's has at least the other's strength. *)
C4_WithinCategoryMonotone ==
    \A b \in Others :
        (/\ b.ranking = ranking
         /\ ranking = HAND_RANKINGS.PAIR => b.held = Current.held) =>
            /\ AtLeast(Current.key, b.key) => strength >= b.strength
            /\ AtLeast(b.key, Current.key) => b.strength >= strength

-----------------------------------------------------------------------------
\* The list without its -1 entries
WithoutSentinel(cards) == SelectSeq(cards, LAMBDA c : c # -1)

(* C5: the -1 sentinel never takes part in classification: the strength and
   ranking returned for a hole pair and a community list are those returned
   for the same lists with the -1 entries removed. *)
C5_SentinelIgnored ==
    count > 0 =>
        <<strength, ranking>> =
            get_strength_postflop(hole_cards, WithoutSentinel(community_ints))

-----------------------------------------------------------------------------
(* C6: codec round trip.  Writing a card id of 0..26 in notation and parsing
   it back gives the id again; get_rank and get_suit of suit*9 + rank give the
   rank and the suit back; the ids, the (rank, suit) pairs and the notations
   are in one-to-one correspondence.  Observed on the cards a call handles:
   the remaining deck it builds and its board make the whole deck, and the
   hole cards it reports in notation parse back to the pair it classified. *)

\* The cards in play during a call: the remaining deck and the board
CardsInPlay == {c \in Range(all_cards) \cup Range(community_ints) : c # -1}

C6_CodecRoundTrip ==
    /\ \A c \in CardsInPlay :
         /\ c \in 0..(NumRanks * NumSuits - 1)
         /\ card_notation_to_int(int_to_card_notation(c)) = c
         /\ ~card_notation_raises(int_to_card_notation(c))
         /\ get_suit(c) * 9 + get_rank(c) = c
    /\ \A r \in 0..(NumRanks - 1) : \A s \in 0..(NumSuits - 1) :
         <<get_rank(s * 9 + r), get_suit(s * 9 + r)>> = <<r, s>>
    /\ Cardinality({int_to_card_notation(c) : c \in CardsInPlay})
          = Cardinality(CardsInPlay)
    /\ Cardinality({<<get_rank(c), get_suit(c)>> : c \in CardsInPlay})
          = Cardinality(CardsInPlay)
    /\ pc = "loop" => Cardinality(CardsInPlay) = NumRanks * NumSuits
    /\ (fn = "best_and_worst_hands" /\ count > 0) =>
          [k \in DOMAIN hole_notation |-> card_notation_to_int(hole_notation[k])] = hole_cards

\* The pair Ad Ah has been classified and reported in notation
C6_Witness ==
    /\ fn = "best_and_worst_hands"
    /\ pc = "loop"
    /\ hole_cards = <<8, 17>>
    /\ hole_notation = << <<"A", "d">>, <<"A", "h">> >>

-----------------------------------------------------------------------------
(* C7: enumerator exhaustiveness.  For a board of k distinct cards,
   best_and_worst_hands classifies exactly C(27-k, 2) hole pairs (276 for
   k = 3), each of two distinct cards not on the board, no unordered pair
   twice; the returned best strength is at least, and the returned worst
   strength at most, the strength of every pair classified. *)

C7_EnumeratorExhaustive ==
    fn = "best_and_worst_hands" =>
        LET k == Len(community_cards) IN
        /\ Cardinality(visited) = count
        /\ \A p \in visited :
             /\ Cardinality(p) = 2
             /\ p \subseteq 0..(NumRanks * NumSuits - 1)
             /\ p \cap Range(community_ints) = {}
        /\ pc = "done" =>
             /\ 2 * count = (27 - k) * (26 - k)
             /\ k = 3 => count = 276
             /\ \A b \in classified :
                  /\ ret.best_hand.strength >= b.strength
                  /\ ret.worst_hand.strength <= b.strength
             /\ \E b \in classified : ret.best_hand.strength = b.strength
             /\ \E b \in classified : ret.worst_hand.strength = b.strength

\* A call on a three-card board has returned after its 276 pairs
C7_Witness ==
    /\ fn = "best_and_worst_hands"
    /\ pc = "done"
    /\ Len(community_cards) = 3
    /\ count = 276
    /\ ret.best_hand.strength > ret.worst_hand.strength

-----------------------------------------------------------------------------
(* C8: wheel and high straight.  A hand without a flush whose distinct ranks
   are exactly 2-3-4-5-A is a Straight with straight-high 5 (rank 3, score
   0.70 + (3/8)*0.09); one whose distinct ranks are exactly 6-7-8-9-A is a
   Straight with straight-high Ace (score 0.79); a hand of any other five
   distinct ranks with the Ace among them is not a straight. *)

NoFlush == \A s \in 0..(NumSuits - 1) : SuitCount(HandCards, s) < 5

C8_WheelAndHighStraight ==
    Valid =>
        LET rs == RanksOf(HandCards) IN
        /\ (NoFlush /\ rs = {0, 1, 2, 3, 8}) =>
              ranking = HAND_RANKINGS.STRAIGHT /\ strength = 560 + 9 * 3
        /\ (NoFlush /\ rs = {4, 5, 6, 7, 8}) =>
              ranking = HAND_RANKINGS.STRAIGHT /\ strength = 632
        /\ (/\ Cardinality(rs) = 5
            /\ 8 \in rs
            /\ rs \notin {{0, 1, 2, 3, 8}, {4, 5, 6, 7, 8}}) =>
              ranking \notin {HAND_RANKINGS.STRAIGHT, HAND_RANKINGS.STRAIGHT_FLUSH}
        /\ get_strength_postflop(<<Card("2", "d"), Card("3", "h")>>,
                                 <<Card("4", "d"), Card("9", "h"), Card("A", "s")>>)
              = <<HighCardStrength(8), HAND_RANKINGS.HIGH_CARD>>

\* The wheel has been classified, with a second five on the board
C8_Witness ==
    /\ Valid
    /\ NoFlush
    /\ RanksOf(HandCards) = {0, 1, 2, 3, 8}
    /\ Cardinality(HandCards) = 6
    /\ ranking = HAND_RANKINGS.STRAIGHT
    /\ strength = 587

-----------------------------------------------------------------------------
(* C9: full house scoring.  As stated: with a rank held three times or more
   and a rank held exactly twice, the score is 0.90 + (best_trip/8)*0.07 +
   (best_pair/8)*0.01; with two ranks held three times and no rank held twice,
   the score is 0.90 + (best_trip/8)*0.08. *)

TripRanks == {r \in RanksOf(HandCards) : RankCount(HandCards, r) >= 3}
PairRanks == {r \in RanksOf(HandCards) : RankCount(HandCards, r) = 2}

C9_FullHouseAsStated ==
    Valid =>
        /\ (TripRanks # {} /\ PairRanks # {}) =>
              /\ ranking = HAND_RANKINGS.FULL_HOUSE
              /\ strength = 720 + 7 * Max(TripRanks) + Max(PairRanks)
        /\ (Cardinality(TripRanks) = 2 /\ PairRanks = {}) =>
              /\ ranking = HAND_RANKINGS.FULL_HOUSE
              /\ strength = 720 + 8 * Max(TripRanks)

(* C9, as the code has it: with a rank held three times or more and a rank
   held exactly twice the score is 0.90 + (best_trip/8)*0.07 +
   (best_pair/8)*0.01; with two ranks held three times and no rank held twice
   the lower of the two plays as the pair and the score is
   0.90 + (higher_trip/8)*0.07 + (lower_trip/8)*0.01. *)
C9_FullHouseScore ==
    Valid =>
        /\ (TripRanks # {} /\ PairRanks # {}) =>
              /\ ranking = HAND_RANKINGS.FULL_HOUSE
              /\ strength = 720 + 7 * Max(TripRanks) + Max(PairRanks)
        /\ (Cardinality(TripRanks) = 2 /\ PairRanks = {}) =>
              /\ ranking = HAND_RANKINGS.FULL_HOUSE
              /\ strength = 720 + 7 * Max(TripRanks) + Min(TripRanks)

\* Fives full of fours, 4s 5h on a board with 4d 5d 4h 5s: two ranks held three
\* times and none held twice
C9_Witness ==
    /\ Valid
    /\ TripRanks = {2, 3}
    /\ PairRanks = {}
    /\ ranking = HAND_RANKINGS.FULL_HOUSE
    /\ strength = 720 + 7 * 3 + 2
    /\ \E b \in classified : b.ranking = HAND_RANKINGS.FULL_HOUSE /\ b.key[2] # 2

-----------------------------------------------------------------------------
(* C10: pair ordering.  As stated: of two hands both classified Pair with the
   pair held in the hole cards, the one with the higher pair rank has the
   strictly higher score whatever the kickers.  Stated here for the narrowest
   reading of 'held in the hole cards', the two hole cards being the pair. *)

C10_PairOrderingAsStated ==
    \A b \in Others :
        (/\ ranking = HAND_RANKINGS.PAIR /\ b.ranking = HAND_RANKINGS.PAIR
         /\ Current.pocket /\ b.pocket) =>
            /\ Current.key[1] > b.key[1] => strength > b.strength
            /\ b.key[1] > Current.key[1] => b.strength > strength

\* Hand x outranks hand y: a higher pair, and either a top kicker that is not
\* lower or a pair at least three ranks higher
PairOutranks(x, y) ==
    /\ x.key[1] > y.key[1]
    /\ x.key[2] >= y.key[2] \/ x.key[1] - y.key[1] >= 3

LiteralPair(r, board) ==
    SummaryOf([hole |-> <<Card(r, "s"), Card(r, "d")>>, board |-> board])

(* C10, as the code has it: of two hands both classified Pair with the pair
   rank among the hole cards, the one with the higher pair rank has the
   strictly higher score when its highest non-paired rank is not lower than
   the other's, or when the pair ranks differ by three or more; the literal
   cases As Ad + 3h 5d 7s > 7s 7d + 3h 5d 9s > 2s 2d + 3h 5d 7s hold, all
   three classified Pair. *)
C10_PairOrdering ==
    /\ \A b \in Others :
         (/\ ranking = HAND_RANKINGS.PAIR /\ b.ranking = HAND_RANKINGS.PAIR
          /\ Current.held /\ b.held) =>
             /\ PairOutranks(Current, b) => strength > b.strength
             /\ PairOutranks(b, Current) => b.strength > strength
    /\ LET low == <<Card("3", "h"), Card("5", "d"), Card("7", "s")>>
           mid == <<Card("3", "h"), Card("5", "d"), Card("9", "s")>>
           aces == LiteralPair("A", low)
           sevens == LiteralPair("7", mid)
           twos == LiteralPair("2", low)
       IN  /\ {aces.ranking, sevens.ranking, twos.ranking} = {HAND_RANKINGS.PAIR}
           /\ aces.strength > sevens.strength
           /\ sevens.strength > twos.strength

\* A held pair with a low kicker has been classified after a held pair three
\* ranks lower with a higher kicker
C10_Witness ==
    /\ Valid
    /\ ranking = HAND_RANKINGS.PAIR
    /\ Current.held
    /\ \E b \in classified :
         /\ b.ranking = HAND_RANKINGS.PAIR
         /\ b.held
         /\ Current.key[1] - b.key[1] >= 3
         /\ Current.key[2] < b.key[2]

-----------------------------------------------------------------------------
(* C11: preflop table.  For every two distinct cards get_strength_preflop
   returns the table value: a pocket pair of aces 0.95, of ranks 5-7
   0.85 + (rank-5)*0.03, of ranks 3-4 0.65 + (rank-3)*0.05, of ranks 0-2
   0.50 + rank*0.05; an ace with kicker >= 7 0.65 (+0.10 suited), with kicker
   5-6 0.55 (+0.15), with a lower kicker 0.40 (+0.15); adjacent non-ace ranks
   with high card >= 6 0.35 (+0.15); other high card >= 6 0.30 (+0.10);
   anything else 0.20 (+0.10).  The value does not depend on the order of the
   two cards and lies in [0.20, 0.95]. *)

\* n hundredths, in the units of the strengths
Hundredths(n) == (n * Unit) \div 100

PreflopTable(c1, c2) ==
    LET r1 == c1 % 9
        r2 == c2 % 9
        hi == IF r1 >= r2 THEN r1 ELSE r2
        lo == IF r1 >= r2 THEN r2 ELSE r1
        suited == c1 \div 9 = c2 \div 9
        plus(n) == IF suited THEN Hundredths(n) ELSE 0
    IN  CASE r1 = r2 /\ r1 = 8 -> Hundredths(95)
          [] r1 = r2 /\ r1 \in 5..7 -> Hundredths(85) + (r1 - 5) * Hundredths(3)
          [] r1 = r2 /\ r1 \in 3..4 -> Hundredths(65) + (r1 - 3) * Hundredths(5)
          [] r1 = r2 /\ r1 \in 0..2 -> Hundredths(50) + r1 * Hundredths(5)
          [] r1 # r2 /\ hi = 8 /\ lo >= 7 -> Hundredths(65) + plus(10)
          [] r1 # r2 /\ hi = 8 /\ lo \in 5..6 -> Hundredths(55) + plus(15)
          [] r1 # r2 /\ hi = 8 /\ lo < 5 -> Hundredths(40) + plus(15)
          [] r1 # r2 /\ hi # 8 /\ hi - lo = 1 /\ hi >= 6 -> Hundredths(35) + plus(15)
          [] r1 # r2 /\ hi # 8 /\ hi - lo # 1 /\ hi >= 6 -> Hundredths(30) + plus(10)
          [] OTHER -> Hundredths(20) + plus(10)

-----------------------------------------------------------------------------
(* C12: card_notation_to_int fails with an error for every two-character
   string whose first character is not one of 2..9, A, a or whose second
   character is not one of d, h, s in either case; every value it returns
   without error is a card id in 0..26. *)

RankChars == {"2", "3", "4", "5", "6", "7", "8", "9", "A", "a"}
SuitChars == {"d", "h", "s", "D", "H", "S"}

C12_ParseRejectsUnknown ==
    op = "card_notation_to_int" =>
        /\ (arg[1] \notin RankChars \/ arg[2] \notin SuitChars) => out.kind = "ValueError"
        /\ out.kind = "return" => out.value \in 0..26

-----------------------------------------------------------------------------
(* C13: decoding an out-of-range card fails.  For every card id outside
   0..26 other than the -1 sentinel, get_rank, get_suit and
   int_to_card_notation signal an error instead of returning a rank, a suit
   or a notation. *)

C13_DecodeRejectsOutOfRange ==
    (/\ op \in {"get_rank", "get_suit", "int_to_card_notation"}
     /\ arg \notin 0..26
     /\ arg # -1) => out.kind # "return"

-----------------------------------------------------------------------------
(* C14: fewer than two cards.  Given 0 or 1 card in all, get_strength_postflop
   returns the minimum High Card result (0.10, HIGH_CARD) or signals
   InsufficientCards; it never returns a score scaled by the rank of a single
   card and never fails with another exception. *)

C14_FewerThanTwoCards ==
    (op = "get_strength_postflop" /\ Len(arg[1]) + Len(arg[2]) < 2) =>
        \/ out.kind = "InsufficientCards"
        \/ out.kind = "return" /\ out.value = <<Hundredths(10), HAND_RANKINGS.HIGH_CARD>>

-----------------------------------------------------------------------------
(* C15: the evaluator is pure.  No call changes a field of the evaluator
   (ranks, suits, HAND_RANKINGS) or the list it was given: the community list
   of an enumerator stays as passed through every iteration and the return,
   as does the list handed to get_strength_postflop from one iteration to the
   next; and when the caller repeats a call on the same list, the second
   result is the first. *)

-----------------------------------------------------------------------------
(* C20: for every hand classified Straight, the straight_high used in the
   score 0.70 + (straight_high/8)*0.09 is the top rank of the highest
   five-rank run present among the distinct ranks, also when six or seven
   consecutive ranks are present and when the wheel {0,1,2,3,8} and a regular
   run are both present. *)

C20_StraightHighIsHighestRun ==
    (Valid /\ ranking = HAND_RANKINGS.STRAIGHT) =>
        strength = 560 + 9 * StraightHigh(RanksOf(HandCards))

-----------------------------------------------------------------------------
(* C21: bet_size_helper returns the strength of the best possible hand for
   the board: for every community list of 0-5 distinct cards its result is
   the maximum of get_strength_postflop(hole, community) over the hole pairs
   of the remaining deck, the best_hand strength best_and_worst_hands reports
   for the same board, so that no hole pair off the board is stronger than
   the result. *)

\* The strongest classification of a pair of cards off the board
BestPossible(board) ==
    LET rest == Deck \ Range(board)
    IN  Max({get_strength_postflop(<<a, b>>, board)[1] :
                 <<a, b>> \in {p \in rest \X rest : p[1] # p[2]}})

C21_BetSizeIsBestPossible ==
    (pc = "done" /\ -1 \notin Range(community_ints)) =>
        LET best == BestPossible(community_ints)
        IN  IF fn = "bet_size_helper"
            THEN ret = best
            ELSE ret.best_hand.strength = best

-----------------------------------------------------------------------------
(* C22: the evaluator variants agree on category.  For every hand of 5-7
   distinct cards get_hand_strength returns the value of the category that
   get_strength_postflop assigns: 1.0 iff straight flush, 0.9 iff full house,
   0.8 iff flush, 0.7 iff straight, 0.6 iff three of a kind, 0.5 iff two
   pair, 0.4 iff pair, and a value in 0.1-0.3 iff high card. *)

\* The value get_hand_strength gives the category (1/90 units); 0 stands for
\* the high-card range
CategoryValue(category) ==
    CASE category = HAND_RANKINGS.STRAIGHT_FLUSH -> 90
      [] category = HAND_RANKINGS.FULL_HOUSE -> 81
      [] category = HAND_RANKINGS.FLUSH -> 72
      [] category = HAND_RANKINGS.STRAIGHT -> 63
      [] category = HAND_RANKINGS.THREE_OF_KIND -> 54
      [] category = HAND_RANKINGS.TWO_PAIR -> 45
      [] category = HAND_RANKINGS.PAIR -> 36
      [] OTHER -> 0

C22_VariantsAgreeOnCategory ==
    (Valid /\ Cardinality(HandCards) >= 5) =>
        LET value == get_hand_strength(hole_cards, community_ints)
        IN  IF ranking = HAND_RANKINGS.HIGH_CARD
            THEN 9 <= value /\ value <= 27
            ELSE value = CategoryValue(ranking)

-----------------------------------------------------------------------------
(* C23: the vector returned by encode_game_state has exactly as many entries
   as the policy network's declared input dimension (input_dim = 42, the
   shape fixed in the predictor's input signature), for every observation. *)

C23_EncodingMatchesInputDim ==
    game_state # <<>> => Len(game_state) = input_dim

-----------------------------------------------------------------------------
(* C24: whenever at least one action is valid, act returns a triple whose
   action_type is a single integer index i with valid_actions[i] true, on
   every path (network, quick_decision, rule_based_decision, exception
   fallback), and when the returned action is RAISE the raise amount lies in
   [min_raise, max_raise]. *)

C24_ActReturnsValidAction ==
    (acts > 0 /\ \E k \in 1..5 : last_observation.valid_actions[k]) =>
        /\ act_out.kind = "return"
        /\ act_out.action_type \in 0..4
        /\ last_observation.valid_actions[act_out.action_type + 1]
        /\ act_out.action_type = RAISE =>
              /\ last_observation.min_raise <= act_out.raise_amount
              /\ act_out.raise_amount <= last_observation.max_raise

-----------------------------------------------------------------------------
(* C25: over any sequence of act calls DISCARD is returned at most once per
   hand: after a DISCARD no later act call returns DISCARD until an
   observation with street == 0 and a new hand_number resets discard_used;
   every returned DISCARD carries card_to_discard in {0, 1}. *)

C25_DiscardOncePerHand ==
    acts > 0 =>
        /\ discards <= 1
        /\ (act_out.kind = "return" /\ act_out.action_type = DISCARD) =>
              act_out.card_to_discard \in {0, 1}

-----------------------------------------------------------------------------
(* C26: choose_card_to_discard keeps the higher card.  Before the flop, with
   two cards of different rank, it returns the index of the lower-ranked
   card and never discards an Ace held with another card; after the flop,
   when the two one-card evaluations tie on hand type and first kicker and
   both hole cards match equally many community suits, it returns the index
   of the lower-valued hole card. *)

C26_DiscardsLowerCard ==
    (op = "choose_card_to_discard" /\ Len(arg[1]) = 2) =>
        LET rank0 == arg[1][1] % 9
            rank1 == arg[1][2] % 9
            board == SelectSeq(arg[2], LAMBDA c : c # -1)
            lower_index == IF rank0 < rank1 THEN 0 ELSE 1
            SuitMatches(card) == Cardinality({k \in DOMAIN board :
                                     board[k] \div 9 = card \div 9})
            tied == /\ arg[3][1] = arg[4][1]
                    /\ (arg[3][2] = <<>> \/ arg[4][2] = <<>> \/ arg[3][2][1] = arg[4][2][1])
                    /\ SuitMatches(arg[1][1]) = SuitMatches(arg[1][2])
        IN  rank0 # rank1 =>
                /\ board = <<>> => out.value = lower_index
                /\ (board # <<>> /\ tied) => out.value = lower_index

-----------------------------------------------------------------------------
(* C27: adding a card never weakens a hand.  For any two hole cards and any
   board of 0-4 distinct cards, appending one further unseen card to the
   community list never decreases the strength, nor the ranking, returned by
   get_strength_postflop. *)

C27_AddingCardNeverWeakens ==
    (Valid /\ Len(community_ints) <= 4) =>
        \A c \in Deck \ HandCards :
            LET more == get_strength_postflop(hole_cards, Append(community_ints, c))
            IN  more[1] >= strength /\ more[2] >= ranking

-----------------------------------------------------------------------------
(* C28: within Two Pair and within Full House the score orders hands as
   poker does, primary rank first.  As stated: a Two Pair hand with a higher
   top pair scores strictly higher than any Two Pair hand with a lower top
   pair whatever the second pairs, and a Full House with higher trips scores
   strictly higher than any Full House with lower trips whatever the pairs. *)

\* Five-card hands of every pair of ranks: x-x-y-y with a third rank, and
\* x-x-x-y-y, classified by get_strength_postflop
TwoPairHands ==
    {SummaryOf([hole |-> <<x, x + 9>>,
                board |-> <<y, y + 9, CHOOSE k \in 0..8 : k \notin {x, y}>>]) :
         <<x, y>> \in {q \in (0..8) \X (0..8) : q[1] # q[2]}}

FullHouseHands ==
    {SummaryOf([hole |-> <<x, x + 9>>, board |-> <<x + 18, y, y + 9>>]) :
         <<x, y>> \in {q \in (0..8) \X (0..8) : q[1] # q[2]}}

\* The hands of the same category the current hand is compared with
SameCategory ==
    IF ~Valid THEN {}
    ELSE IF ranking = HAND_RANKINGS.TWO_PAIR
    THEN {b \in Others \cup TwoPairHands : b.ranking = ranking}
    ELSE IF ranking = HAND_RANKINGS.FULL_HOUSE
    THEN {b \in Others \cup FullHouseHands : b.ranking = ranking}
    ELSE {}

C28_PrimaryRankFirstAsStated ==
    \A b \in SameCategory :
        /\ Current.key[1] > b.key[1] => strength > b.strength
        /\ b.key[1] > Current.key[1] => b.strength > strength

\* Hand x outranks hand y of the same category: a higher primary rank, and
\* either a secondary rank that is not lower or a primary rank at least gap
\* ranks higher
PrimaryOutranks(x, y, gap) ==
    /\ x.key[1] > y.key[1]
    /\ x.key[2] >= y.key[2] \/ x.key[1] - y.key[1] >= gap

(* C28, as the code has it: of two Two Pair hands the one with the higher top
   pair scores strictly higher when its second pair is not lower or its top
   pair is at least three ranks higher; of two Full Houses the one with the
   higher trips scores strictly higher when its pair is not lower or its
   trips are at least two ranks higher. *)
C28_PrimaryRankFirst ==
    LET gap == IF ranking = HAND_RANKINGS.TWO_PAIR THEN 3 ELSE 2
    IN  \A b \in SameCategory :
            /\ PrimaryOutranks(Current, b, gap) => strength > b.strength
            /\ PrimaryOutranks(b, Current, gap) => b.strength > strength

\* Fives full of fours has been classified; it beats threes full of aces
\* (trips two ranks lower) and loses to sixes full of deuces
C28_Witness ==
    /\ Valid
    /\ ranking = HAND_RANKINGS.FULL_HOUSE
    /\ Current.key = <<3, 2>>
    /\ \E b \in SameCategory : b.key = <<1, 8>> /\ strength > b.strength
    /\ \E b \in SameCategory : b.key = <<4, 0>> /\ b.strength > strength

-----------------------------------------------------------------------------
(* C30: pocket-pair preflop values are those written in the comments of the
   pair branch: get_strength_preflop returns 0.95 for AA, 0.91 for 99, 0.88
   for 88, 0.85 for 77, 0.75 for 66, 0.70 for 55, 0.65 for 44, 0.60 for 33
   and 0.55 for 22 (card label = rank index + 2), and the value is strictly
   increasing in the pair rank. *)

\* The commented value, in hundredths, by rank index (8 is the Ace)
CommentedPairValue ==
    [r \in 0..8 |->
        CASE r = 8 -> 95 [] r = 7 -> 91 [] r = 6 -> 88 [] r = 5 -> 85
          [] r = 4 -> 75 [] r = 3 -> 70 [] r = 2 -> 65 [] r = 1 -> 60
          [] r = 0 -> 55]

C30_PocketPairsAsCommented ==
    (/\ op = "get_strength_preflop"
     /\ Len(arg) = 2
     /\ get_rank(arg[1]) = get_rank(arg[2])) =>
        /\ out.kind = "return"
        /\ out.value = Hundredths(CommentedPairValue[get_rank(arg[1])])
        /\ \A r \in 0..8 :
               r < get_rank(arg[1]) =>
                   get_strength_preflop(<<r, r + 9>>) < out.value

-----------------------------------------------------------------------------
(* C29: the description and the ranking reported by best_and_worst_hands name
   the same category: for every hole pair and board get_hand_description
   begins with the category name that corresponds to the ranking
   get_strength_postflop returns for the same cards, and the rank named in
   the description is the rank the score was computed from. *)

CategoryName ==
    [r \in 0..7 |->
        CASE r = HAND_RANKINGS.STRAIGHT_FLUSH -> "Straight Flush"
          [] r = HAND_RANKINGS.FULL_HOUSE -> "Full House"
          [] r = HAND_RANKINGS.FLUSH -> "Flush"
          [] r = HAND_RANKINGS.STRAIGHT -> "Straight"
          [] r = HAND_RANKINGS.THREE_OF_KIND -> "Three of a Kind"
          [] r = HAND_RANKINGS.TWO_PAIR -> "Two Pair"
          [] r = HAND_RANKINGS.PAIR -> "Pair"
          [] r = HAND_RANKINGS.HIGH_CARD -> "High Card"]

\* The rank index a description names by the piece s
RankNamed(s) == IF s = "A" THEN 8 ELSE int(s) - 2

\* The score of category r computed from the ranks the description d names
\* (the pair score also takes the kicker and the holder from the cards)
DescribedScore(d, hole, board, r) ==
    LET named == RankNamed(d[3])
        all_ranks == {get_rank(c) : c \in Range(hole) \cup Range(board)}
    IN  CASE r = HAND_RANKINGS.STRAIGHT_FLUSH -> 792
          [] r = HAND_RANKINGS.FULL_HOUSE ->
                 FullHouseStrength(named, {RankNamed(d[5])})
          [] r = HAND_RANKINGS.FLUSH -> FlushStrength(named)
          [] r = HAND_RANKINGS.STRAIGHT -> StraightStrength(named)
          [] r = HAND_RANKINGS.THREE_OF_KIND -> TripsStrength(named)
          [] r = HAND_RANKINGS.TWO_PAIR -> TwoPairStrength(named, RankNamed(d[5]))
          [] r = HAND_RANKINGS.PAIR ->
                 PairStrength(named, named \in {get_rank(c) : c \in Range(hole)},
                              all_ranks \ {named})
          [] r = HAND_RANKINGS.HIGH_CARD -> HighCardStrength(named)

DescriptionAgrees(d, hole, board, s, r) ==
    /\ r \in 0..7
    /\ Len(d) >= 3
    /\ d[1] = CategoryName[r]
    /\ s = DescribedScore(d, hole, board, r)

Reported(h) ==
    DescriptionAgrees(h.description,
                      [k \in DOMAIN h.hole_cards |-> card_notation_to_int(h.hole_cards[k])],
                      community_ints, h.strength, h.ranking)

C29_DescriptionMatchesRanking ==
    /\ count > 0 =>
           DescriptionAgrees(get_hand_description(hole_cards, community_ints),
                             hole_cards, community_ints, strength, ranking)
    /\ (count > 0 /\ fn = "best_and_worst_hands") =>
           Reported(best_hand) /\ Reported(worst_hand)
    /\ (pc = "done" /\ count > 0 /\ fn = "best_and_worst_hands") =>
           Reported(ret.best_hand) /\ Reported(ret.worst_hand)

\* best_and_worst_hands has just classified 2d 3d on the board 4d 6d 7h 5s:
\* the running best hand is described "Straight, 6-high", ranked STRAIGHT and
\* scored from the 6 (the hand holds the six ranks 2..7)
C29_Witness ==
    /\ pc = "loop"
    /\ fn = "best_and_worst_hands"
    /\ hole_cards = <<0, 1>>
    /\ community_ints = <<2, 4, 14, 21>>
    /\ best_hand.description = <<"Straight", ", ", "6", "-high">>
    /\ best_hand.ranking = HAND_RANKINGS.STRAIGHT
    /\ best_hand.strength = StraightStrength(4)

=============================================================================
